---- MODULE Spec2Model ----
(***************************************************************************)
(* Model of theflysurfer/hydraspecter:                                     *)
(*   scripts/seleniumbase_bridge.py  - the stdio Command Bridge            *)
(*   scripts/manual-login.py         - the Profile Pool Synchronizer       *)
(***************************************************************************)
EXTENDS Naturals, Integers, Sequences, FiniteSets, TLC

\* ------------------------------------------------------------------------
\* Bounds
\* ------------------------------------------------------------------------
\* number of input lines the bridge reads before end of input
MaxLines == 3

\* ------------------------------------------------------------------------
\* Values.  A JSON / Python value is a pair <<tag, payload>>.
\* ------------------------------------------------------------------------
JAbsent == <<"absent", "">>
JList == <<"list", "">>
PyNone == <<"none", "">>
PyTrue == <<"bool", "true">>
PyObj == <<"obj", "WebElement">>

Str(s) == <<"str", s>>

\* dict.get(key, default): the default only when the key is absent
Get(field, default) == IF field = JAbsent THEN default ELSE field

\* how a parameter value appears to the handlers:
\*   "absent" - key missing or null  (params.get(k) is None)
\*   "empty"  - present but falsy    ("" or 0)
\*   "val"    - present and truthy
\* windowSize / windowPosition: "absent", "dict" (a mapping; for windowSize
\* it behaves as the default {}) or "bad" (a value without .get)
Kinds == {"absent", "empty", "val"}

Truthy(k) == k = "val"

\* cmd.get('params', {}) when the key is missing: a dict with no keys
DefaultParams ==
    [dict |-> TRUE, profileDir |-> "absent", windowSize |-> "absent",
     windowPosition |-> "absent", url |-> "absent", selector |-> "absent",
     text |-> "absent", value |-> "absent", script |-> "absent",
     clear |-> FALSE, ucClick |-> TRUE, format |-> "html",
     direction |-> "down"]

\* params that is not a mapping (null, list, string): every params.get raises
NonDictParams == [DefaultParams EXCEPT !.dict = FALSE]

\* ------------------------------------------------------------------------
\* Handler results: what the handler returned or raised, the driver handle
\* and the number of live driver instances it leaves, and the number of
\* calls it made on the browser driver (Driver() creation included).
\* ------------------------------------------------------------------------
Ret(v, d, l, c) == [raised |-> FALSE, val |-> v, drv |-> d, live |-> l, calls |-> c]

Raise(msg, d, l, c) == [raised |-> TRUE, val |-> Str(msg), drv |-> d, live |-> l, calls |-> c]

\* str(e) of the exceptions the handlers can raise
ParamsError == "object has no attribute 'get'"
NoDriverError == "'NoneType' object has no attribute"
DriverError == "driver error"
NotSerializable == "Object is not JSON serializable"

\* One call on the driver handle d, the n-th driver call of the handler:
\* attribute access on None raises AttributeError before any call is made;
\* on a live driver the call raises when the environment makes it fail.
\* The continuation k is the result when the call returns.
DriverCall(d, l, n, failAt, k) ==
    IF d = "None" THEN Raise(NoDriverError, d, l, n - 1)
    ELSE IF failAt = n THEN Raise(DriverError, d, l, n)
    ELSE k

init_driver(params, d, l, failAt, ret) ==
    IF ~params.dict THEN Raise(ParamsError, d, l, 0)
    ELSE IF params.windowSize = "bad" THEN Raise(ParamsError, d, l, 0)
    ELSE IF failAt = 1 THEN Raise(DriverError, d, l, 1)
    ELSE IF failAt = 2 THEN Raise(DriverError, "Live", l + 1, 2)
    ELSE IF params.windowPosition = "absent" THEN Ret(PyTrue, "Live", l + 1, 2)
    ELSE IF params.windowPosition = "bad" THEN Raise(ParamsError, "Live", l + 1, 2)
    ELSE IF failAt = 3 THEN Raise(DriverError, "Live", l + 1, 3)
    ELSE Ret(PyTrue, "Live", l + 1, 3)

navigate(params, d, l, failAt, ret) ==
    IF ~params.dict THEN Raise(ParamsError, d, l, 0)
    ELSE IF ~Truthy(params.url) THEN Raise("URL required", d, l, 0)
    ELSE DriverCall(d, l, 1, failAt, Ret(PyTrue, d, l, 1))

\* uc_click or click, one driver call either way
click(params, d, l, failAt, ret) ==
    IF ~params.dict THEN Raise(ParamsError, d, l, 0)
    ELSE IF ~Truthy(params.selector) THEN Raise("Selector required", d, l, 0)
    ELSE IF params.ucClick THEN DriverCall(d, l, 1, failAt, Ret(PyTrue, d, l, 1))
    ELSE DriverCall(d, l, 1, failAt, Ret(PyTrue, d, l, 1))

type_text(params, d, l, failAt, ret) ==
    IF ~params.dict THEN Raise(ParamsError, d, l, 0)
    ELSE IF ~Truthy(params.selector) \/ params.text = "absent"
         THEN Raise("Selector and text required", d, l, 0)
    ELSE IF params.clear
         THEN DriverCall(d, l, 1, failAt,
                  DriverCall(d, l, 2, failAt, Ret(PyTrue, d, l, 2)))
    ELSE DriverCall(d, l, 1, failAt, Ret(PyTrue, d, l, 1))

fill(params, d, l, failAt, ret) ==
    IF ~params.dict THEN Raise(ParamsError, d, l, 0)
    ELSE IF ~Truthy(params.selector) \/ params.value = "absent"
         THEN Raise("Selector and value required", d, l, 0)
    ELSE DriverCall(d, l, 1, failAt,
             DriverCall(d, l, 2, failAt, Ret(PyTrue, d, l, 2)))

screenshot(params, d, l, failAt, ret) ==
    DriverCall(d, l, 1, failAt, Ret(Str("<base64 png>"), d, l, 1))

snapshot(params, d, l, failAt, ret) ==
    IF ~params.dict THEN Raise(ParamsError, d, l, 0)
    ELSE IF params.format = "html"
         THEN DriverCall(d, l, 1, failAt, Ret(<<"dict", "html">>, d, l, 1))
    ELSE DriverCall(d, l, 1, failAt, Ret(<<"dict", "text">>, d, l, 1))

\* ret is what driver.execute_script hands back: None, a JSON value, or an
\* object json.dumps cannot serialise
evaluate(params, d, l, failAt, ret) ==
    IF ~params.dict THEN Raise(ParamsError, d, l, 0)
    ELSE IF ~Truthy(params.script) THEN Raise("Script required", d, l, 0)
    ELSE DriverCall(d, l, 1, failAt, Ret(ret, d, l, 1))

wait_element(params, d, l, failAt, ret) ==
    IF ~params.dict THEN Raise(ParamsError, d, l, 0)
    ELSE IF ~Truthy(params.selector) THEN Raise("Selector required", d, l, 0)
    ELSE DriverCall(d, l, 1, failAt, Ret(PyTrue, d, l, 1))

\* scroll_to(selector) when the key is present, else execute_script with
\* the signed amount: one driver call on every branch
scroll(params, d, l, failAt, ret) ==
    IF ~params.dict THEN Raise(ParamsError, d, l, 0)
    ELSE IF params.selector # "absent" THEN DriverCall(d, l, 1, failAt, Ret(PyTrue, d, l, 1))
    ELSE IF params.direction = "down" THEN DriverCall(d, l, 1, failAt, Ret(PyTrue, d, l, 1))
    ELSE DriverCall(d, l, 1, failAt, Ret(PyTrue, d, l, 1))

\* close without the "if driver" guard
close_unguarded(params, d, l, failAt, ret) ==
    DriverCall(d, l, 1, failAt, Ret(PyTrue, "None", l - 1, 1))

\* close that quits but forgets to reset the handle to None
close_keeps_handle(params, d, l, failAt, ret) ==
    IF d = "Live"
    THEN IF failAt = 1 THEN Raise(DriverError, d, l, 1)
         ELSE Ret(PyTrue, d, l - 1, 1)
    ELSE Ret(PyTrue, d, l, 0)

close(params, d, l, failAt, ret) ==
    IF d = "Live"
    THEN IF failAt = 1 THEN Raise(DriverError, d, l, 1)
         ELSE Ret(PyTrue, "None", l - 1, 1)
    ELSE Ret(PyTrue, d, l, 0)

get_url(params, d, l, failAt, ret) ==
    IF d = "Live"
    THEN IF failAt = 1 THEN Raise(DriverError, d, l, 1)
         ELSE Ret(Str("<current_url>"), d, l, 1)
    ELSE Ret(Str("about:blank"), d, l, 0)

\* get_title without the "if driver else ''" fallback
get_title_unguarded(params, d, l, failAt, ret) ==
    DriverCall(d, l, 1, failAt, Ret(Str("<title>"), d, l, 1))

get_title(params, d, l, failAt, ret) ==
    IF d = "Live"
    THEN IF failAt = 1 THEN Raise(DriverError, d, l, 1)
         ELSE Ret(Str("<title>"), d, l, 1)
    ELSE Ret(Str(""), d, l, 0)

\* solve_turnstile that skips the click when there is no driver
solve_turnstile_guarded(params, d, l, failAt, ret) ==
    IF d = "None" THEN Ret(PyTrue, d, l, 0)
    ELSE DriverCall(d, l, 1, failAt, Ret(PyTrue, d, l, 1))

solve_turnstile(params, d, l, failAt, ret) ==
    DriverCall(d, l, 1, failAt, Ret(PyTrue, d, l, 1))

\* the keys of the handlers table
handlers ==
    {"init", "navigate", "click", "type", "fill", "screenshot", "snapshot",
     "evaluate", "wait_element", "scroll", "close", "get_url", "get_title",
     "solve_turnstile"}

\* ------------------------------------------------------------------------
\* Input lines
\* ------------------------------------------------------------------------
IdFields == {JAbsent, Str("a")}

\* the params each method reads, over the kinds of value they can hold
ParamsOf(m) ==
    CASE m = "init" ->
           {[DefaultParams EXCEPT !.profileDir = p, !.windowSize = g[1], !.windowPosition = g[2]] :
               p \in {"absent", "val"},
               g \in {<<"absent", "absent">>, <<"bad", "absent">>,
                      <<"absent", "dict">>, <<"absent", "bad">>}}
      [] m = "navigate" -> {[DefaultParams EXCEPT !.url = u] : u \in Kinds}
      [] m = "click" ->
           {[DefaultParams EXCEPT !.selector = s] : s \in Kinds}
           \cup {[DefaultParams EXCEPT !.selector = "val", !.ucClick = FALSE]}
      [] m = "type" ->
           {[DefaultParams EXCEPT !.selector = g[1], !.text = g[2]] :
               g \in {<<"absent", "absent">>, <<"absent", "val">>, <<"val", "absent">>,
                      <<"val", "empty">>, <<"val", "val">>}}
           \cup {[DefaultParams EXCEPT !.selector = "val", !.text = "val", !.clear = TRUE]}
      [] m = "fill" ->
           {[DefaultParams EXCEPT !.selector = g[1], !.value = g[2]] :
               g \in {<<"absent", "absent">>, <<"absent", "val">>, <<"val", "absent">>,
                      <<"val", "empty">>, <<"val", "val">>}}
      [] m = "snapshot" -> {[DefaultParams EXCEPT !.format = f] : f \in {"html", "text"}}
      [] m = "evaluate" -> {[DefaultParams EXCEPT !.script = s] : s \in Kinds}
      [] m = "wait_element" -> {[DefaultParams EXCEPT !.selector = s] : s \in Kinds}
      [] m = "scroll" ->
           {[DefaultParams EXCEPT !.direction = dd] : dd \in {"down", "up"}}
           \cup {[DefaultParams EXCEPT !.selector = "val"]}
      [] OTHER -> {DefaultParams}

\* the handlers that read params
ReadsParams ==
    {"init", "navigate", "click", "type", "fill", "snapshot", "evaluate",
     "wait_element", "scroll"}

\* method names that are not in the handlers table
UnknownNames == {"teleport"}

\* the lines that decode to a JSON object
Commands ==
    UNION {[id : IdFields, method : {Str(m)},
            params : ParamsOf(m) \cup (IF m \in ReadsParams THEN {NonDictParams} ELSE {})] :
              m \in handlers}
    \cup [id : IdFields, method : {Str(m) : m \in UnknownNames} \cup {JAbsent, JList},
          params : {DefaultParams}]

\* what execute_script can hand back
Rets == {PyNone, Str("<value>"), PyObj}

\* ------------------------------------------------------------------------
\* State
\* ------------------------------------------------------------------------
VARIABLES
    pc,        \* "read" | "dispatch" | "done" | "crashed" : position of main
    driver,    \* the nonlocal driver handle: "None" | "Live"
    live,      \* driver instances created and not yet quit
    nlines,    \* lines read so far
    lastLine,  \* kind of the last line read
    cmd,       \* cmd_id, method, params of the last decoded line
    pre,       \* driver handle and live count when the last Command was dispatched
    prev,      \* method, outcome and driver handle of the Command before the last
    resp,      \* the last Response printed
    calls,     \* driver calls made by the last dispatch
    handled,   \* whether the last dispatch entered a handler
    inIds,     \* cmd_id of every Command read, in order
    outIds,    \* id of every Response printed, in order
    \* --- Profile Pool Synchronizer (manual-login.py) ---
    syncPc,    \* "off" | "pool" | "pair" | "done" | "raised"
    si,        \* replica index i of the outer loop
    sj,        \* index into files_to_sync of the inner loop
    synced,    \* the synced counter
    srcKind,   \* pool-0/<artifact>: "absent" | "file" | "dir"
    poolKind,  \* pool-i: "absent" | "dir" | "file"
    parentKind,\* pool-i/Default: "absent" | "dir" | "file"
    dst,       \* pool-i/<artifact>: content of the destination
    ioFail,    \* pairs whose copy call raises (I/O error)
    attempted, \* pairs whose try block was entered
    warned,    \* pairs reported with [WARN]
    run,       \* which call of sync_to_all_pools this is: 1 or 2
    first,     \* how the first call ended: replica content, count, outcome
    \* --- manual-login.py main flow ---
    mainPc,    \* "off" | "start" | "test" | "sync" | "exit" | "crashed"
    argv,      \* sys.argv[1:]: <<>> or <<site_name>>
    loggedIn,  \* logged_in of main, FALSE until manual_login returned
    url,       \* page.url read at line 252, "" before
    verdict,   \* "none" | "success" | "still-on-login" | "other-failure"
    steps      \* the calls main has made, in order

bridgeVars ==
    <<pc, driver, live, nlines, lastLine, cmd, pre, prev, resp, calls, handled,
      inIds, outIds>>

NoCmd == [id |-> Str(""), method |-> JAbsent, params |-> DefaultParams]

NoResp == [id |-> Str(""), success |-> FALSE, keys |-> {}, data |-> PyNone, error |-> PyNone]

\* send_response: the dict that is dumped on stdout
send_response(cmd_id, success, data, error) ==
    [id |-> cmd_id, success |-> success,
     keys |-> {"id", "success"}
                \cup (IF data # PyNone THEN {"data"} ELSE {})
                \cup (IF error # PyNone THEN {"error"} ELSE {}),
     data |-> data, error |-> error]

\* json.dumps raises TypeError on an object it cannot serialise
Serializable(v) == v[1] # "obj"

\* except ValueError: only the parameter checks are caught
Caught_valueerror(r) ==
    ~r.raised \/ r.val \notin {Str(DriverError), Str(NoDriverError), Str(ParamsError)}

\* except Exception: every exception a handler raises is caught
Caught(r) == TRUE

\* the try/except around the handler call and the success response
Respond(cmd_id, r) ==
    IF r.raised THEN send_response(cmd_id, FALSE, PyNone, r.val)
    ELSE IF ~Serializable(r.val)
         THEN send_response(cmd_id, FALSE, PyNone, Str(NotSerializable))
    ELSE send_response(cmd_id, TRUE, r.val, PyNone)

NoPrev == [method |-> "", success |-> FALSE, pre |-> "None"]

\* what is remembered of the Command dispatched last, when the next one is
\* dispatched
Shift == [method |-> cmd.method[2], success |-> resp.success, pre |-> pre.drv]

InitBridge ==
    /\ pc = "read"
    /\ driver = "None"
    /\ live = 0
    /\ nlines = 0
    /\ lastLine = "none"
    /\ cmd = NoCmd
    /\ pre = [drv |-> "None", live |-> 0]
    /\ prev = NoPrev
    /\ resp = NoResp
    /\ calls = 0
    /\ handled = FALSE
    /\ inIds = <<>>
    /\ outIds = <<>>

syncVars ==
    <<syncPc, si, sj, synced, srcKind, poolKind, parentKind, dst, ioFail,
      attempted, warned, run, first>>

loginVars == <<mainPc, argv, loggedIn, url, verdict, steps>>

vars == <<bridgeVars, syncVars, loginVars>>

\* manual-login.py main is not running
LoginOff ==
    /\ mainPc = "off"
    /\ argv = <<>>
    /\ loggedIn = FALSE
    /\ url = ""
    /\ verdict = "none"
    /\ steps = <<>>

\* ------------------------------------------------------------------------
\* Command Bridge: the main loop
\* ------------------------------------------------------------------------
CanRead == pc = "read" /\ nlines < MaxLines

\* line.strip() is empty: continue
ReadBlank ==
    /\ CanRead
    /\ nlines' = nlines + 1
    /\ lastLine' = "blank"
    /\ UNCHANGED <<pc, driver, live, cmd, pre, prev, resp, calls, handled, inIds, outIds>>
    /\ UNCHANGED <<syncVars, loginVars>>

\* json.loads raises JSONDecodeError: one line on stderr (not modelled as
\* state), next line
ReadInvalidJSON ==
    /\ CanRead
    /\ nlines' = nlines + 1
    /\ lastLine' = "invalid"
    /\ UNCHANGED <<pc, driver, live, cmd, pre, prev, resp, calls, handled, inIds, outIds>>
    /\ UNCHANGED <<syncVars, loginVars>>

\* json.loads returns a list, number, string or null: cmd.get raises
\* AttributeError, which except json.JSONDecodeError does not catch
ReadNonObject ==
    /\ CanRead
    /\ nlines' = nlines + 1
    /\ lastLine' = "nonobject"
    /\ pc' = "crashed"
    /\ UNCHANGED <<driver, live, cmd, pre, prev, resp, calls, handled, inIds, outIds>>
    /\ UNCHANGED <<syncVars, loginVars>>

\* json.loads returns a dict: cmd_id, method, params are taken from it
ReadCommand ==
    /\ CanRead
    /\ \E line \in Commands :
         /\ cmd' = [id |-> Get(line.id, Str("")),
                    method |-> Get(line.method, Str("")),
                    params |-> line.params]
         /\ inIds' = Append(inIds, Get(line.id, Str("")))
    /\ nlines' = nlines + 1
    /\ lastLine' = "command"
    /\ pc' = "dispatch"
    /\ UNCHANGED <<driver, live, pre, resp, calls, handled, outIds>>
    /\ prev' = IF Len(inIds) = 0 THEN NoPrev ELSE Shift
    /\ UNCHANGED <<syncVars, loginVars>>

\* a list or dict cannot be looked up in the handlers dict
Hashable(method) == method[1] # "list"

\* an error text that leaves the method name out
UnknownMethodError_noname(method) == "Unknown method"

\* f'Unknown method: {method}'
UnknownMethodError(method) == "Unknown method: " \o method[2]

\* method not in handlers raises TypeError: unhashable type, uncaught
DispatchUnhashable ==
    /\ pc = "dispatch"
    /\ ~Hashable(cmd.method)
    /\ pc' = "crashed"
    /\ UNCHANGED <<driver, live, nlines, lastLine, cmd, pre, prev, resp, calls, handled,
                   inIds, outIds>>
    /\ UNCHANGED <<syncVars, loginVars>>

DispatchUnknown ==
    /\ pc = "dispatch"
    /\ Hashable(cmd.method)
    /\ cmd.method[2] \notin handlers
    /\ resp' = send_response(cmd.id, FALSE, PyNone, Str(UnknownMethodError(cmd.method)))
    /\ outIds' = Append(outIds, resp'.id)
    /\ pre' = [drv |-> driver, live |-> live]
    /\ calls' = 0
    /\ handled' = FALSE
    /\ pc' = "read"
    /\ UNCHANGED <<driver, live, nlines, lastLine, cmd, prev, inIds>>
    /\ UNCHANGED <<syncVars, loginVars>>

\* the handler has returned or raised with result r
Finish(r) ==
    /\ driver' = r.drv
    /\ live' = r.live
    /\ calls' = r.calls
    /\ pre' = [drv |-> driver, live |-> live]
    /\ handled' = TRUE
    /\ IF Caught(r)
       THEN /\ resp' = Respond(cmd.id, r)
            /\ outIds' = Append(outIds, resp'.id)
            /\ pc' = "read"
       ELSE /\ pc' = "crashed"
            /\ UNCHANGED <<resp, outIds>>
    /\ UNCHANGED <<nlines, lastLine, cmd, prev, inIds>>
    /\ UNCHANGED <<syncVars, loginVars>>

\* method is a key of handlers and handlers[method] is the handler of m
Dispatching(m) ==
    /\ pc = "dispatch"
    /\ Hashable(cmd.method)
    /\ cmd.method[2] \in handlers
    /\ cmd.method[2] = m

\* One action per handler: handlers[method](params) and the Response.  The
\* environment chooses which driver call of the handler (if any) raises
\* (failAt) and, for evaluate, what execute_script hands back.
InitDriver ==
    /\ Dispatching("init")
    /\ \E failAt \in 0..3, ret \in {PyTrue} :
         Finish(init_driver(cmd.params, driver, live, failAt, ret))

Navigate ==
    /\ Dispatching("navigate")
    /\ \E failAt \in 0..1, ret \in {PyTrue} :
         Finish(navigate(cmd.params, driver, live, failAt, ret))

Click ==
    /\ Dispatching("click")
    /\ \E failAt \in 0..1, ret \in {PyTrue} :
         Finish(click(cmd.params, driver, live, failAt, ret))

TypeText ==
    /\ Dispatching("type")
    /\ \E failAt \in 0..2, ret \in {PyTrue} :
         Finish(type_text(cmd.params, driver, live, failAt, ret))

Fill ==
    /\ Dispatching("fill")
    /\ \E failAt \in 0..2, ret \in {PyTrue} :
         Finish(fill(cmd.params, driver, live, failAt, ret))

Screenshot ==
    /\ Dispatching("screenshot")
    /\ \E failAt \in 0..1, ret \in {PyTrue} :
         Finish(screenshot(cmd.params, driver, live, failAt, ret))

Snapshot ==
    /\ Dispatching("snapshot")
    /\ \E failAt \in 0..1, ret \in {PyTrue} :
         Finish(snapshot(cmd.params, driver, live, failAt, ret))

Evaluate ==
    /\ Dispatching("evaluate")
    /\ \E failAt \in 0..1, ret \in Rets :
         Finish(evaluate(cmd.params, driver, live, failAt, ret))

WaitElement ==
    /\ Dispatching("wait_element")
    /\ \E failAt \in 0..1, ret \in {PyTrue} :
         Finish(wait_element(cmd.params, driver, live, failAt, ret))

Scroll ==
    /\ Dispatching("scroll")
    /\ \E failAt \in 0..1, ret \in {PyTrue} :
         Finish(scroll(cmd.params, driver, live, failAt, ret))

Close ==
    /\ Dispatching("close")
    /\ \E failAt \in 0..1, ret \in {PyTrue} :
         Finish(close(cmd.params, driver, live, failAt, ret))

GetUrl ==
    /\ Dispatching("get_url")
    /\ \E failAt \in 0..1, ret \in {PyTrue} :
         Finish(get_url(cmd.params, driver, live, failAt, ret))

GetTitle ==
    /\ Dispatching("get_title")
    /\ \E failAt \in 0..1, ret \in {PyTrue} :
         Finish(get_title(cmd.params, driver, live, failAt, ret))

SolveTurnstile ==
    /\ Dispatching("solve_turnstile")
    /\ \E failAt \in 0..1, ret \in {PyTrue} :
         Finish(solve_turnstile(cmd.params, driver, live, failAt, ret))

\* sys.stdin is exhausted: the for loop ends and main returns
EndOfInput ==
    /\ pc = "read"
    /\ pc' = "done"
    /\ UNCHANGED <<driver, live, nlines, lastLine, cmd, pre, prev, resp, calls, handled,
                   inIds, outIds>>
    /\ UNCHANGED <<syncVars, loginVars>>

\* ------------------------------------------------------------------------
\* Profile Pool Synchronizer: sync_to_all_pools
\* ------------------------------------------------------------------------
\* range(1, 10): pool-1 .. pool-9
NumPools == 9

files_to_sync ==
    <<"Default/Cookies", "Default/Local Storage", "Default/Session Storage",
      "Default/IndexedDB", "Default/Service Worker">>

NumFiles == Len(files_to_sync)

Pairs == (1..NumPools) \X (1..NumFiles)

\* what the browser keeps at each artifact path: Cookies is a file, the
\* others are directories
NaturalKind(a) == IF files_to_sync[a] = "Default/Cookies" THEN "file" ELSE "dir"

\* a destination path: nothing, or a file / directory with its content
\* ("old": what was there before the sync, "copy": an exact copy of the
\* source, "old+copy": the old directory with the source file copied into it)
NoEntry == [kind |-> "absent", content |-> "none"]

\* the copy with the rmtree of an existing destination directory left out:
\* copytree raises FileExistsError on it
CopyPair_normtree(src, d, parent, fails) ==
    IF parent = "file"
    THEN [ok |-> FALSE, dst |-> d, parent |-> parent]
    ELSE IF src = "dir"
    THEN IF d.kind # "absent"
         THEN [ok |-> FALSE, dst |-> d, parent |-> "dir"]
         ELSE IF fails
         THEN [ok |-> FALSE, dst |-> NoEntry, parent |-> "dir"]
         ELSE [ok |-> TRUE, dst |-> [kind |-> "dir", content |-> "copy"], parent |-> "dir"]
    ELSE IF fails
         THEN [ok |-> FALSE, dst |-> d, parent |-> "dir"]
         ELSE IF d.kind = "dir"
         THEN [ok |-> TRUE, dst |-> [kind |-> "dir", content |-> "old+copy"], parent |-> "dir"]
         ELSE [ok |-> TRUE, dst |-> [kind |-> "file", content |-> "copy"], parent |-> "dir"]

\* the copy with synced += 1 moved after the try block: counted even when
\* the copy raised
CopyPair_countsall(src, d, parent, fails) ==
    IF parent = "file"
    THEN [ok |-> TRUE, dst |-> d, parent |-> parent]
    ELSE IF src = "dir"
    THEN IF d.kind = "file"
         THEN [ok |-> TRUE, dst |-> d, parent |-> "dir"]
         ELSE IF fails
         THEN [ok |-> TRUE, dst |-> NoEntry, parent |-> "dir"]
         ELSE [ok |-> TRUE, dst |-> [kind |-> "dir", content |-> "copy"], parent |-> "dir"]
    ELSE IF fails
         THEN [ok |-> TRUE, dst |-> d, parent |-> "dir"]
         ELSE IF d.kind = "dir"
         THEN [ok |-> TRUE, dst |-> [kind |-> "dir", content |-> "old+copy"], parent |-> "dir"]
         ELSE [ok |-> TRUE, dst |-> [kind |-> "file", content |-> "copy"], parent |-> "dir"]

\* One (replica, artifact) copy, lines 127-137: the try block for a source
\* of kind src, a destination entry d, the kind of pool-i/Default, and
\* whether the copy call itself raises (I/O error).  ok is whether synced is
\* incremented; otherwise the exception is caught and reported.
CopyPair(src, d, parent, fails) ==
    IF parent = "file"
    THEN [ok |-> FALSE, dst |-> d, parent |-> parent]
    ELSE IF src = "dir"
    THEN IF d.kind = "file"
         THEN [ok |-> FALSE, dst |-> d, parent |-> "dir"]
         ELSE IF fails
         THEN [ok |-> FALSE, dst |-> NoEntry, parent |-> "dir"]
         ELSE [ok |-> TRUE, dst |-> [kind |-> "dir", content |-> "copy"], parent |-> "dir"]
    ELSE IF fails
         THEN [ok |-> FALSE, dst |-> d, parent |-> "dir"]
         ELSE IF d.kind = "dir"
         THEN [ok |-> TRUE, dst |-> [kind |-> "dir", content |-> "old+copy"], parent |-> "dir"]
         ELSE [ok |-> TRUE, dst |-> [kind |-> "file", content |-> "copy"], parent |-> "dir"]

\* no call of sync_to_all_pools has ended yet
NoFirst == [dst |-> <<>>, poolKind |-> <<>>, parentKind |-> <<>>, synced |-> 0, pc |-> "none"]

\* the synchronizer is not running
SyncOff ==
    /\ syncPc = "off"
    /\ si = 1
    /\ sj = 1
    /\ synced = 0
    /\ srcKind = [a \in 1..NumFiles |-> "absent"]
    /\ poolKind = [i \in 1..NumPools |-> "absent"]
    /\ parentKind = [i \in 1..NumPools |-> "absent"]
    /\ dst = [i \in 1..NumPools |-> [a \in 1..NumFiles |-> NoEntry]]
    /\ ioFail = {}
    /\ attempted = {}
    /\ warned = {}
    /\ run = 1
    /\ first = NoFirst

\* What can be wrong with the replicas when the sync starts: nothing, a
\* pool-i or pool-i/Default path taken by a regular file, a destination of
\* either kind already there, or a copy that will raise an I/O error.
Faults ==
    {[kind |-> "none", pool |-> 0, art |-> 0]}
    \cup [kind : {"poolIsFile", "parentIsFile"}, pool : 1..NumPools, art : {0}]
    \cup [kind : {"dstIsFile", "dstIsDir", "ioError"}, pool : 1..NumPools, art : 1..NumFiles]

\* the replicas with the fault f in them
ReplicasWith(f) ==
    /\ poolKind = [i \in 1..NumPools |->
                     IF f.pool # i THEN "absent"
                     ELSE IF f.kind = "poolIsFile" THEN "file"
                     ELSE IF f.kind = "ioError" THEN "absent" ELSE "dir"]
    /\ parentKind = [i \in 1..NumPools |->
                       IF f.pool # i THEN "absent"
                       ELSE IF f.kind = "parentIsFile" THEN "file"
                       ELSE IF f.kind \in {"dstIsFile", "dstIsDir"} THEN "dir"
                       ELSE "absent"]
    /\ dst = [i \in 1..NumPools |-> [a \in 1..NumFiles |->
                IF f.pool = i /\ f.art = a /\ f.kind = "dstIsFile"
                  THEN [kind |-> "file", content |-> "old"]
                ELSE IF f.pool = i /\ f.art = a /\ f.kind = "dstIsDir"
                  THEN [kind |-> "dir", content |-> "old"]
                ELSE NoEntry]]
    /\ ioFail = IF f.kind = "ioError" THEN {<<f.pool, f.art>>} ELSE {}

\* sync_to_all_pools is called: pool-0 holds any subset of the artifacts
InitSync ==
    /\ InitBridge
    /\ LoginOff
    /\ syncPc = "pool"
    /\ si = 1
    /\ sj = 1
    /\ synced = 0
    /\ srcKind \in [1..NumFiles -> {"absent", "file", "dir"}]
    /\ \A a \in 1..NumFiles : srcKind[a] \in {"absent", NaturalKind(a)}
    /\ \E f \in Faults : ReplicasWith(f)
    /\ attempted = {}
    /\ warned = {}
    /\ run = 1
    /\ first = NoFirst

\* lines 119-120: pool_dir.mkdir(parents=True, exist_ok=True), outside any
\* try: FileExistsError when the path is a regular file
SyncEnterPool ==
    /\ syncPc = "pool"
    /\ IF poolKind[si] = "file"
       THEN /\ syncPc' = "raised"
            /\ UNCHANGED poolKind
       ELSE /\ syncPc' = "pair"
            /\ poolKind' = [poolKind EXCEPT ![si] = "dir"]
    /\ sj' = 1
    /\ UNCHANGED <<si, synced, srcKind, parentKind, dst, ioFail, attempted, warned>>
    /\ UNCHANGED <<run, first>>
    /\ UNCHANGED <<bridgeVars, loginVars>>

\* lines 122-137: one iteration of the inner loop, then the loop headers
SyncPair ==
    /\ syncPc = "pair"
    /\ IF srcKind[sj] = "absent"
       THEN UNCHANGED <<synced, parentKind, dst, attempted, warned>>
       ELSE LET r == CopyPair(srcKind[sj], dst[si][sj], parentKind[si], <<si, sj>> \in ioFail)
            IN  /\ attempted' = attempted \cup {<<si, sj>>}
                /\ parentKind' = [parentKind EXCEPT ![si] = r.parent]
                /\ dst' = [dst EXCEPT ![si][sj] = r.dst]
                /\ synced' = IF r.ok THEN synced + 1 ELSE synced
                /\ warned' = IF r.ok THEN warned ELSE warned \cup {<<si, sj>>}
    /\ IF sj < NumFiles
       THEN /\ sj' = sj + 1
            /\ UNCHANGED <<si, syncPc>>
       ELSE /\ sj' = 1
            /\ IF si < NumPools
               THEN si' = si + 1 /\ syncPc' = "pool"
               ELSE UNCHANGED si /\ syncPc' = "done"
    /\ UNCHANGED <<srcKind, poolKind, ioFail>>
    /\ UNCHANGED <<run, first>>
    /\ UNCHANGED <<bridgeVars, loginVars>>

NextSync ==
    \/ SyncEnterPool
    \/ SyncPair

\* the script is run a second time on the same pool-0 and the same
\* replicas: sync_to_all_pools starts again, with nothing kept from the
\* first call but the files it left
SyncAgain ==
    /\ syncPc \in {"done", "raised"}
    /\ run = 1
    /\ run' = 2
    /\ first' = [dst |-> dst, poolKind |-> poolKind, parentKind |-> parentKind,
                 synced |-> synced, pc |-> syncPc]
    /\ syncPc' = "pool"
    /\ si' = 1
    /\ sj' = 1
    /\ synced' = 0
    /\ attempted' = {}
    /\ warned' = {}
    /\ UNCHANGED <<srcKind, poolKind, parentKind, dst, ioFail>>
    /\ UNCHANGED <<bridgeVars, loginVars>>

NextResync ==
    \/ SyncEnterPool
    \/ SyncPair
    \/ SyncAgain

\* ------------------------------------------------------------------------
\* Login Orchestrator and Session Verification (manual-login.py)
\* ------------------------------------------------------------------------
\* SITES, lines 26-82
SITES ==
    [google |->
       [login_url |-> "https://accounts.google.com/",
        check_url |-> "https://mail.google.com/",
        success_indicator |-> "mail.google.com/mail"],
     amazon |->
       [login_url |-> "https://www.amazon.fr/ap/signin",
        check_url |-> "https://www.amazon.fr/gp/css/homepage.html",
        success_indicator |-> "amazon.fr"],
     homeexchange |->
       [login_url |-> "https://www.homeexchange.fr/login",
        check_url |-> "https://www.homeexchange.fr/user/favorite",
        success_indicator |-> "homeexchange.fr/user"],
     notion |->
       [login_url |-> "https://www.notion.so/login",
        check_url |-> "https://www.notion.so/",
        success_indicator |-> "notion.so"],
     github |->
       [login_url |-> "https://github.com/login",
        check_url |-> "https://github.com/settings/profile",
        success_indicator |-> "github.com/settings"],
     temu |->
       [login_url |-> "https://www.temu.com/login.html",
        check_url |-> "https://www.temu.com/bgp_user_profile.html",
        success_indicator |-> "temu.com"],
     hellofresh |->
       [login_url |-> "https://www.hellofresh.fr/login",
        check_url |-> "https://www.hellofresh.fr/my-account/deliveries",
        success_indicator |-> "hellofresh.fr/my-account"],
     aliexpress |->
       [login_url |-> "https://login.aliexpress.com/",
        check_url |-> "https://www.aliexpress.com/p/order/index.html",
        success_indicator |-> "aliexpress.com/p/order"],
     kiabi |->
       [login_url |-> "https://www.kiabi.com/login",
        check_url |-> "https://www.kiabi.com/mon-compte",
        success_indicator |-> "kiabi.com/mon-compte"],
     auchan |->
       [login_url |-> "https://www.auchan.fr/login",
        check_url |-> "https://www.auchan.fr/espace-client/profil",
        success_indicator |-> "auchan.fr/espace-client"],
     chronodrive |->
       [login_url |-> "https://www.chronodrive.com/login",
        check_url |-> "https://www.chronodrive.com/mon-compte",
        success_indicator |-> "chronodrive.com/mon-compte"]]

\* `t in s` of two Python strings
Contains(s, t) ==
    \E i \in 1..(Len(s) + 1 - Len(t)) : SubSeq(s, i, i + Len(t) - 1) = t

\* s[from:] searched for the first character that is in cs: its index, or
\* Len(s) + 1 when there is none (str.find, 1-based)
FindAny(s, cs, from) ==
    LET hits == {i \in from..Len(s) : SubSeq(s, i, i) \in cs}
    IN IF hits = {} THEN Len(s) + 1
       ELSE CHOOSE i \in hits : \A j \in hits : i <= j

\* str.rfind of one character: its last index, or 0
RFind(s, c) ==
    LET hits == {i \in 1..Len(s) : SubSeq(s, i, i) = c}
    IN IF hits = {} THEN 0
       ELSE CHOOSE i \in hits : \A j \in hits : j <= i

UpperCase == "ABCDEFGHIJKLMNOPQRSTUVWXYZ"

LowerCase == "abcdefghijklmnopqrstuvwxyz"

Chars(s) == {SubSeq(s, i, i) : i \in 1..Len(s)}

\* str.lower() on ASCII text
RECURSIVE lower(_)
lower(s) ==
    IF s = "" THEN ""
    ELSE LET c == SubSeq(s, 1, 1)
             k == FindAny(UpperCase, {c}, 1)
         IN (IF k <= Len(UpperCase) THEN SubSeq(LowerCase, k, k) ELSE c)
            \o lower(SubSeq(s, 2, Len(s)))

\* urllib.parse.scheme_chars
scheme_chars == Chars(UpperCase) \cup Chars(LowerCase) \cup Chars("0123456789+-.")

\* urllib.parse.uses_params, the schemes a browser URL can have
uses_params == {"", "http", "https", "ftp"}

\* urllib.parse._splitparams: the path without the ;parameters of its last
\* segment
splitparams(p) ==
    LET i == FindAny(p, {";"}, RFind(p, "/") + 1)
    IN SubSeq(p, 1, i - 1)

\* urllib.parse.urlparse as called at line 256: scheme up to the first ':',
\* netloc between '//' and the first of '/', '?', '#', the fragment after
\* the first '#', the query after the first '?' before it, and the path
\* without its ;parameters
urlparse(u) ==
    LET c == FindAny(u, {":"}, 1)
        hasScheme == /\ 1 < c
                     /\ c <= Len(u)
                     /\ SubSeq(u, 1, 1) \in Chars(UpperCase) \cup Chars(LowerCase)
                     /\ \A k \in 1..(c - 1) : SubSeq(u, k, k) \in scheme_chars
        scheme == IF hasScheme THEN lower(SubSeq(u, 1, c - 1)) ELSE ""
        u1 == IF hasScheme THEN SubSeq(u, c + 1, Len(u)) ELSE u
        hasNetloc == Len(u1) >= 2 /\ SubSeq(u1, 1, 2) = "//"
        delim == FindAny(u1, {"/", "?", "#"}, 3)
        netloc == IF hasNetloc THEN SubSeq(u1, 3, delim - 1) ELSE ""
        u2 == IF hasNetloc THEN SubSeq(u1, delim, Len(u1)) ELSE u1
        h == FindAny(u2, {"#"}, 1)
        u3 == SubSeq(u2, 1, h - 1)
        q == FindAny(u3, {"?"}, 1)
        u4 == SubSeq(u3, 1, q - 1)
    IN [scheme |-> scheme,
        netloc |-> netloc,
        path |-> IF scheme \in uses_params THEN splitparams(u4) ELSE u4,
        query |-> SubSeq(u3, q + 1, Len(u3)),
        fragment |-> SubSeq(u2, h + 1, Len(u2))]

\* host+path matched against the full text of the URL after the scheme
url_host_path_withquery(u) ==
    LET parsed == urlparse(u)
    IN parsed.netloc \o parsed.path \o "?" \o parsed.query

\* line 257: url_host_path = f"{parsed.netloc}{parsed.path}"
url_host_path(u) ==
    LET parsed == urlparse(u)
    IN parsed.netloc \o parsed.path

\* lines 259-282: the if-chain of test_persistence for a site name, the
\* success_indicator of its descriptor and the URL the page ended on
classify(site_name, success_indicator, u) ==
    LET parsed == urlparse(u)
    IN IF Contains(url_host_path(u), success_indicator)
       THEN "success"
       ELSE IF lower(site_name) = "google"
               /\ Contains(url_host_path(u), "mail.google.com/mail")
       THEN "success"
       ELSE IF \/ Contains(parsed.netloc, "accounts.google.com")
               \/ Contains(parsed.path, "/signin")
               \/ Contains(parsed.path, "/login")
       THEN "still-on-login"
       ELSE "other-failure"

\* SITES.get(site_name.lower()) is not None, lines 152 and 210
KnownSite(site_name) == lower(site_name) \in DOMAIN SITES

\* the descriptor test_persistence and manual_login work with
SiteOf(site_name) == SITES[lower(site_name)]

\* the URLs the browser can end on after page.goto(check_url): each site's
\* check page and login page, and redirects seen on such sites
FinalUrls ==
    {SITES[n].login_url : n \in DOMAIN SITES}
    \cup {SITES[n].check_url : n \in DOMAIN SITES}
    \cup {"https://accounts.google.com/v3/signin/identifier?continue=https://mail.google.com/mail/",
          "https://accounts.google.com/accountchooser?continue=https://mail.google.com/mail/",
          "https://mail.google.com/mail/u/0/#inbox",
          "https://www.amazon.fr/ap/signin?openid.return_to=https://www.amazon.fr/gp/css/homepage.html",
          "https://github.com/login?return_to=https://github.com/settings/profile",
          "https://github.com/settings/profile?tab=keys#top",
          "https://github.com/session#/login?next=x",
          "https://www.kiabi.com/?redirect=kiabi.com/mon-compte",
          "https://www.kiabi.com/mon-compte;jsessionid=1?utm_source=x",
          "https://www.auchan.fr/auth;next=auchan.fr/espace-client",
          "https://www.chronodrive.com?from=/login",
          "https://www.example.org/blocked",
          "about:blank"}

\* the names main can be started with: every configured site, one in
\* another case, one that is not configured
SiteArgs == DOMAIN SITES \cup {"GitHub", "nosuchsite"}

\* test_persistence, lines 208-286, as the verdict it reaches on the URL
\* the page ended on; only "success" makes it return True
test_persistence(site_name, u) ==
    IF ~KnownSite(site_name) THEN "unknown-site"
    ELSE classify(site_name, SiteOf(site_name).success_indicator, u)

\* main that starts the sync whatever test_persistence returned
main_after_test_unchecked(success) == "sync"

\* lines 303-306: if success: sync_to_all_pools()
main_after_test(success) == IF success THEN "sync" ELSE "exit"

\* the replica faults the main flow is explored with
LoginFaults ==
    {[kind |-> "none", pool |-> 0, art |-> 0],
     [kind |-> "poolIsFile", pool |-> 2, art |-> 0],
     [kind |-> "dstIsDir", pool |-> 1, art |-> 1]}

\* python manual-login.py [site]: main starts, nothing synced yet
InitLogin ==
    /\ InitBridge
    /\ mainPc = "start"
    /\ argv \in {<<>>} \cup {<<n>> : n \in SiteArgs}
    /\ loggedIn = FALSE
    /\ url = ""
    /\ verdict = "none"
    /\ steps = <<>>
    /\ syncPc = "off"
    /\ si = 1
    /\ sj = 1
    /\ synced = 0
    /\ srcKind \in {[a \in 1..NumFiles |-> NaturalKind(a)],
                    [a \in 1..NumFiles |->
                       IF NaturalKind(a) = "file" THEN "file" ELSE "absent"]}
    /\ \E f \in LoginFaults : ReplicasWith(f)
    /\ attempted = {}
    /\ warned = {}
    /\ run = 1
    /\ first = NoFirst

\* lines 290-293: no site argument, main prints the usage and returns
MainNoArgv ==
    /\ mainPc = "start"
    /\ argv = <<>>
    /\ mainPc' = "exit"
    /\ UNCHANGED <<argv, loggedIn, url, verdict, steps>>
    /\ UNCHANGED <<bridgeVars, syncVars>>

\* lines 295-300 with manual_login, lines 150-205: False for a site that
\* is not configured, True once the browser was closed; a failing browser
\* launch or page.goto raises through main
ManualLogin ==
    /\ mainPc = "start"
    /\ argv # <<>>
    /\ steps' = Append(steps, "manual_login")
    /\ IF ~KnownSite(argv[1])
       THEN /\ loggedIn' = FALSE
            /\ mainPc' = "exit"
       ELSE \E raises \in BOOLEAN :
              /\ loggedIn' = ~raises
              /\ mainPc' = IF raises THEN "crashed" ELSE "test"
    /\ UNCHANGED <<argv, url, verdict>>
    /\ UNCHANGED <<bridgeVars, syncVars>>

\* lines 301-306 with test_persistence, lines 208-286: the page is sent to
\* check_url and ends on some URL; on an account chooser an account is
\* clicked and the URL is read again; the URL is classified, and on
\* success main calls sync_to_all_pools
TestPersistence ==
    /\ mainPc = "test"
    /\ \E raises \in BOOLEAN, u1 \in FinalUrls :
       \E final \in IF Contains(u1, "accountchooser") THEN FinalUrls ELSE {u1} :
         LET v == test_persistence(argv[1], final)
             next == main_after_test(v = "success")
         IN IF raises
            THEN /\ mainPc' = "crashed"
                 /\ steps' = Append(steps, "test_persistence")
                 /\ UNCHANGED <<url, verdict, syncPc>>
            ELSE /\ url' = final
                 /\ verdict' = v
                 /\ mainPc' = next
                 /\ steps' = IF next = "sync"
                             THEN steps \o <<"test_persistence", "sync_to_all_pools">>
                             ELSE Append(steps, "test_persistence")
                 /\ syncPc' = IF next = "sync" THEN "pool" ELSE syncPc
    /\ UNCHANGED <<argv, loggedIn>>
    /\ UNCHANGED bridgeVars
    /\ UNCHANGED <<si, sj, synced, srcKind, poolKind, parentKind, dst, ioFail,
                   attempted, warned, run, first>>

\* sync_to_all_pools is over: main prints its last line and returns, or
\* the exception of line 120 ends it
SyncReturns ==
    /\ mainPc = "sync"
    /\ syncPc \in {"done", "raised"}
    /\ mainPc' = IF syncPc = "done" THEN "exit" ELSE "crashed"
    /\ UNCHANGED <<argv, loggedIn, url, verdict, steps>>
    /\ UNCHANGED <<bridgeVars, syncVars>>

NextLogin ==
    \/ MainNoArgv
    \/ ManualLogin
    \/ TestPersistence
    \/ SyncEnterPool
    \/ SyncPair
    \/ SyncReturns

Init == InitBridge /\ SyncOff /\ LoginOff

Next ==
    \/ ReadBlank
    \/ ReadInvalidJSON
    \/ ReadNonObject
    \/ ReadCommand
    \/ DispatchUnhashable
    \/ DispatchUnknown
    \/ InitDriver
    \/ Navigate
    \/ Click
    \/ TypeText
    \/ Fill
    \/ Screenshot
    \/ Snapshot
    \/ Evaluate
    \/ WaitElement
    \/ Scroll
    \/ Close
    \/ GetUrl
    \/ GetTitle
    \/ SolveTurnstile
    \/ EndOfInput

Spec == Init /\ [][Next]_vars

SpecSync == InitSync /\ [][NextSync]_vars

SpecResync == InitSync /\ [][NextResync]_vars

SpecLogin == InitLogin /\ [][NextLogin]_vars

\* ------------------------------------------------------------------------
\* Properties of the Command Bridge
\* ------------------------------------------------------------------------
\* the last line read was a Command and its dispatch is over
Dispatched == pc \in {"read", "done"} /\ lastLine = "command"

Method == cmd.method[2]

\* the dispatch of the last Command left the session as it found it
SessionKept == driver = pre.drv /\ live = pre.live

\* C1: every Command gets exactly one Response, the k-th Response carries
\* the id of the k-th Command, and the Response to a Command is out before
\* the next Command is read.
C1_OneResponsePerCommandInOrder ==
    /\ pc = "dispatch" => inIds = Append(outIds, cmd.id)
    /\ pc # "dispatch" => outIds = inIds

\* C2: every Response has data and not error when success is true, error and
\* not data when success is false.
C2_ExactlyOneOfDataError ==
    resp # NoResp =>
        IF resp.success THEN resp.keys = {"id", "success", "data"}
        ELSE resp.keys = {"id", "success", "error"}

\* C3 as stated: on an Uninitialized session every Command whose method is
\* not init, get_url or get_title is answered with success=false.
C3_UninitializedFails ==
    (Dispatched /\ pre.drv = "None" /\ Method \notin {"init", "get_url", "get_title"})
        => ~resp.success

\* C3 amended: on an Uninitialized session every Command whose method is not
\* init, get_url, get_title or close is answered with success=false and an
\* error; close makes no driver call and is answered with success=true.
C3_UninitializedFailsExceptClose ==
    (Dispatched /\ pre.drv = "None") =>
        /\ Method \notin {"init", "get_url", "get_title", "close"}
             => (~resp.success /\ "error" \in resp.keys /\ SessionKept)
        /\ Method = "close" => (resp.success /\ calls = 0)

\* a navigate with a url, on a session that was closed, fails on the missing
\* driver
C3_Witness ==
    /\ Dispatched
    /\ pre.drv = "None"
    /\ prev.method = "close" /\ prev.pre = "Live" /\ prev.success
    /\ Method = "navigate" /\ cmd.params.url = "val"
    /\ ~resp.success /\ resp.error = Str(NoDriverError)

\* C4: a line that is not a JSON object (invalid JSON, or a JSON array,
\* number, string, null) produces no Response, leaves the session unchanged
\* and the loop goes on reading.
C4_MalformedLineIgnored ==
    [][(nlines' = nlines + 1 /\ lastLine' \in {"invalid", "nonobject"})
          => (outIds' = outIds /\ resp' = resp /\ driver' = driver
                /\ live' = live /\ pc' = "read")]_vars

\* C5: a Command whose method name is not in the handlers table is answered
\* with its id, success=false and 'Unknown method: <method>'; no handler
\* runs, the session is unchanged and the loop goes on.
C5_UnknownMethod ==
    [][(pc = "dispatch" /\ cmd.method[1] = "str" /\ Method \notin handlers)
          => /\ resp' = [id |-> cmd.id, success |-> FALSE,
                         keys |-> {"id", "success", "error"}, data |-> PyNone,
                         error |-> Str("Unknown method: " \o Method)]
             /\ outIds' = Append(outIds, cmd.id)
             /\ ~handled' /\ calls' = 0
             /\ driver' = driver /\ live' = live
             /\ pc' = "read"]_vars

\* 'teleport' sent to an Active session
C5_Witness ==
    /\ Dispatched
    /\ Method = "teleport" /\ cmd.id = Str("a")
    /\ resp.id = Str("a") /\ resp.error = Str("Unknown method: teleport")
    /\ pre.drv = "Live" /\ driver = "Live"

\* C6 as stated (its last part): a close issued after a failed click on an
\* Active session returns success=true and releases the session.
C6_CloseAfterFailedClickSucceeds ==
    (Dispatched /\ Method = "close" /\ pre.drv = "Live"
       /\ prev.method = "click" /\ prev.pre = "Live" /\ ~prev.success)
        => (resp.success /\ driver = "None")

\* C6 amended: every Command dispatched to a handler is answered, whether
\* the handler returns or raises and whatever the answer to the Command
\* before it was; a failure carries the exception text; the loop then reads
\* the next line.  A close issued after a failed click on an Active session
\* calls quit on the driver and either returns success=true and releases
\* the session, or (quit raising) returns success=false with the driver's
\* error and keeps it.
C6_FailureNeverBlocks ==
    [][(pc = "dispatch" /\ Method \in handlers)
          => /\ pc' = "read"
             /\ outIds' = Append(outIds, cmd.id)
             /\ resp'.id = cmd.id
             /\ ~resp'.success => ("error" \in resp'.keys /\ resp'.error[1] = "str")
             /\ (Method = "close" /\ driver = "Live"
                   /\ prev.method = "click" /\ ~prev.success)
                  => /\ calls' = 1
                     /\ \/ resp'.success /\ driver' = "None" /\ live' = live - 1
                        \/ /\ ~resp'.success /\ resp'.error = Str(DriverError)
                           /\ driver' = "Live" /\ live' = live]_vars

\* init, a click the driver fails, then a close that releases the session
C6_Witness ==
    /\ Dispatched
    /\ Method = "close" /\ pre.drv = "Live"
    /\ prev.method = "click" /\ prev.pre = "Live" /\ ~prev.success
    /\ resp.success /\ driver = "None" /\ calls = 1

\* the required parameter of the last Command is missing
MissingRequired ==
    /\ cmd.params.dict
    /\ \/ Method = "init" /\ cmd.params.profileDir = "absent"
       \/ Method = "navigate" /\ cmd.params.url = "absent"
       \/ Method \in {"click", "wait_element"} /\ cmd.params.selector = "absent"
       \/ Method = "type" /\ (cmd.params.selector = "absent" \/ cmd.params.text = "absent")
       \/ Method = "fill" /\ (cmd.params.selector = "absent" \/ cmd.params.value = "absent")

\* C7: a Command that omits a required parameter is answered with
\* success=false, makes no call on the driver and leaves the session
\* unchanged.
C7_MissingParamRejected ==
    (Dispatched /\ MissingRequired) => (~resp.success /\ calls = 0 /\ SessionKept)

\* C8: a close that follows a close which released an Active session makes
\* no driver call, leaves the session Uninitialized and returns success=true.
C8_SecondCloseNoOp ==
    (Dispatched /\ Method = "close"
       /\ prev.method = "close" /\ prev.pre = "Live" /\ prev.success)
        => /\ pre.drv = "None"
           /\ resp = [id |-> cmd.id, success |-> TRUE, keys |-> {"id", "success", "data"},
                      data |-> PyTrue, error |-> PyNone]
           /\ calls = 0
           /\ driver = "None" /\ live = pre.live

\* init, close, close
C8_Witness ==
    /\ Dispatched
    /\ Method = "close"
    /\ prev.method = "close" /\ prev.pre = "Live" /\ prev.success
    /\ resp.success /\ calls = 0 /\ driver = "None" /\ live = 0

\* the answers of get_url and get_title on an Uninitialized session
SentinelAnswers ==
    /\ Method = "get_url"
         => (resp.success /\ "data" \in resp.keys /\ resp.data = Str("about:blank")
               /\ calls = 0 /\ SessionKept)
    /\ Method = "get_title"
         => (resp.success /\ "data" \in resp.keys /\ resp.data = Str("")
               /\ calls = 0 /\ SessionKept)

\* C9 as stated: on an Uninitialized session get_url returns 'about:blank'
\* and get_title returns '', without creating a driver, and every other
\* non-init method answers with an error.
C9_SentinelsAreSoleExceptions ==
    (Dispatched /\ pre.drv = "None") =>
        /\ SentinelAnswers
        /\ Method \in handlers \ {"init", "get_url", "get_title"} => ~resp.success

\* C9 amended: on an Uninitialized session get_url returns 'about:blank' and
\* get_title returns '', without creating a driver; get_url, get_title and
\* close are the only non-init methods that do not answer with an error.
C9_SentinelsAndCloseAreSoleExceptions ==
    (Dispatched /\ pre.drv = "None") =>
        /\ SentinelAnswers
        /\ Method \in handlers \ {"init", "get_url", "get_title", "close"} => ~resp.success
        /\ Method = "close" => resp.success

\* get_title polled after a close
C9_Witness ==
    /\ Dispatched
    /\ pre.drv = "None"
    /\ prev.method = "close" /\ prev.pre = "Live" /\ prev.success
    /\ Method = "get_title"
    /\ resp.success /\ resp.data = Str("") /\ driver = "None"

\* C16: the bridge never holds more than one live (created and not yet
\* quit) driver instance, an init on an Active session that creates a
\* driver has released the previous one, and a close that succeeds leaves
\* no live driver.
C16_AtMostOneLiveDriver ==
    /\ live <= 1
    /\ (Dispatched /\ Method = "close" /\ resp.success) => live = 0

\* the last Command found the session just released by a successful close
\* of an Active session
AfterClose == prev.method = "close" /\ prev.pre = "Live" /\ prev.success

\* C17: after a successful close of an Active session the session is
\* Uninitialized: get_url and get_title return their sentinels, the methods
\* that use the driver fail on the missing driver or on their parameter
\* check, and an init is not rejected: it creates a driver, and when it
\* answers success=true the session is Active again.
C17_ReenterableAfterClose ==
    (Dispatched /\ AfterClose) =>
        /\ pre.drv = "None"
        /\ Method = "get_url" => (resp.success /\ resp.data = Str("about:blank"))
        /\ Method = "get_title" => (resp.success /\ resp.data = Str(""))
        /\ Method \in handlers \ {"init", "close", "get_url", "get_title"}
             => (~resp.success /\ calls = 0 /\ driver = "None")
        /\ (Method = "init" /\ cmd.params.dict /\ cmd.params.windowSize # "bad")
             => calls >= 1
        /\ (Method = "init" /\ resp.success)
             => (driver = "Live" /\ live = pre.live + 1 /\ resp.data = PyTrue)

\* init, close, then an init with a profileDir that makes the session
\* Active again
C17_Witness ==
    /\ Dispatched
    /\ AfterClose
    /\ Method = "init" /\ cmd.params.profileDir = "val"
    /\ resp.success /\ driver = "Live" /\ live = 1

\* C19: no line makes the process stop before end of input: main never
\* ends on an uncaught exception, and once the input is exhausted it has
\* answered every Command it read.
C19_NeverStopsBeforeEndOfInput ==
    /\ pc # "crashed"
    /\ pc = "done" => Len(outIds) = Len(inIds)

\* C20: a Command answered with success=false leaves the driver handle and
\* the live driver instances as they were before the Command.
C20_FailureKeepsSession ==
    (Dispatched /\ ~resp.success) => SessionKept

\* ------------------------------------------------------------------------
\* Properties of the Profile Pool Synchronizer
\* ------------------------------------------------------------------------
\* C10: a failure on one (replica, artifact) pair or on one replica never
\* aborts the batch nor raises to the caller: when sync_to_all_pools is
\* over it has returned normally, every pair whose source exists was
\* attempted, and every attempted pair that was not reported was counted.
C10_BatchNeverAborts ==
    syncPc \in {"done", "raised"} =>
        /\ syncPc = "done"
        /\ \A q \in Pairs : srcKind[q[2]] # "absent" => q \in attempted
        /\ synced = Cardinality(attempted \ warned)

\* the artifacts pool-0 holds
Present == {a \in 1..NumFiles : srcKind[a] # "absent"}

\* C11: with pool-0 unchanged, a second call of sync_to_all_pools leaves
\* every replica with the content the first call left, and ends as the
\* first call ended, reporting the same count.
C11_SecondRunSameResult ==
    (run = 2 /\ syncPc \in {"done", "raised"}) =>
        /\ dst = first.dst
        /\ poolKind = first.poolKind
        /\ parentKind = first.parentKind
        /\ syncPc = first.pc
        /\ synced = first.synced

\* a second call over replicas where the first call replaced a stale
\* directory and copied 45 items
C11_Witness ==
    /\ run = 2 /\ syncPc = "done"
    /\ Present = 1..NumFiles
    /\ first.synced = NumPools * NumFiles
    /\ synced = NumPools * NumFiles
    /\ \E i \in 1..NumPools, a \in 1..NumFiles :
         NaturalKind(a) = "dir" /\ first.dst[i][a] = [kind |-> "dir", content |-> "copy"]

\* the pairs whose destination holds a copy made by this call
CopiedPairs == {q \in Pairs : dst[q[1]][q[2]].content \in {"copy", "old+copy"}}

\* C12: the reported count is the number of (replica, artifact) pairs whose
\* source exists and whose copy completed; it is 9 times the number of
\* artifacts present when no copy failed, and strictly less than 9 x 5 as
\* soon as an artifact is absent or a copy failed.
C12_CountIsCopiedPairs ==
    syncPc = "done" =>
        /\ synced = Cardinality(CopiedPairs)
        /\ CopiedPairs \subseteq {q \in Pairs : q[2] \in Present}
        /\ warned = {} => synced = NumPools * Cardinality(Present)
        /\ (Present # 1..NumFiles \/ warned # {}) => synced < NumPools * NumFiles

\* every artifact present and exactly one copy failed: 44 items
C12_Witness ==
    /\ syncPc = "done"
    /\ Present = 1..NumFiles
    /\ Cardinality(warned) = 1
    /\ synced = NumPools * NumFiles - 1

\* C18: after a call that reported no failure, every replica holds, for
\* every artifact present in pool-0, an exact copy of it (same kind, no
\* stale entry), whatever the replica held before.
C18_ReplicasAreExactCopies ==
    (syncPc = "done" /\ warned = {}) =>
        \A q \in Pairs : q[2] \in Present =>
            dst[q[1]][q[2]] = [kind |-> srcKind[q[2]], content |-> "copy"]

\* ------------------------------------------------------------------------
\* Properties of the Login Orchestrator and of Session Verification
\* ------------------------------------------------------------------------
MainOrder == <<"manual_login", "test_persistence", "sync_to_all_pools">>

\* some path of a replica changes in this step
ReplicaWritten ==
    dst' # dst \/ poolKind' # poolKind \/ parentKind' # parentKind

\* C13: main calls manual_login, then test_persistence, then
\* sync_to_all_pools, in this order; the sync is started only when
\* manual_login returned True and test_persistence classified the session
\* as success; no replica path is written in any other case (site not
\* configured, verification failed).
C13_SyncOnlyAfterVerifiedLogin ==
    [][/\ Len(steps') <= Len(MainOrder)
       /\ steps' = SubSeq(MainOrder, 1, Len(steps'))
       /\ syncPc' # "off" =>
            (steps' = MainOrder /\ loggedIn' /\ verdict' = "success")
       /\ ReplicaWritten =>
            /\ steps = MainOrder
            /\ loggedIn
            /\ verdict = "success"
            /\ KnownSite(argv[1])]_vars

\* a run that logged in, verified and synced the replicas
C13_Witness ==
    /\ mainPc = "exit"
    /\ steps = MainOrder
    /\ verdict = "success"
    /\ syncPc = "done"
    /\ synced = NumPools * NumFiles

\* the login/signin pattern of line 270
LoginPattern(u) ==
    \/ Contains(urlparse(u).netloc, "accounts.google.com")
    \/ Contains(urlparse(u).path, "/signin")
    \/ Contains(urlparse(u).path, "/login")

\* C14: whenever the final URL's host is accounts.google.com or its path
\* contains /login or /signin, the verdict is still-on-login, for every
\* configured site.
C14_LoginPageIsFailure ==
    (verdict # "none" /\ LoginPattern(url)) => verdict = "still-on-login"

\* the URL without its query string
StripQuery(u) ==
    LET h == FindAny(u, {"#"}, 1)
        q == FindAny(SubSeq(u, 1, h - 1), {"?"}, 1)
    IN SubSeq(u, 1, q - 1) \o SubSeq(u, h, Len(u))

\* C15: the verdict on a URL is the verdict on the URL without its query
\* string, for every site and every URL the page can end on; https://site.example/account?utm_source=x with
\* indicator site.example/account is success, and
\* https://site.example/login?next=/account is still-on-login.
C15_QueryIgnored ==
    /\ verdict # "none" => verdict = test_persistence(argv[1], StripQuery(url))
    /\ classify("example", "site.example/account",
                "https://site.example/account?utm_source=x") = "success"
    /\ classify("example", "site.example/account",
                "https://site.example/login?next=/account") = "still-on-login"

\* a login page whose query names the page the indicator stands for
C15_Witness ==
    /\ argv = <<"github">>
    /\ url = "https://github.com/login?return_to=https://github.com/settings/profile"
    /\ Contains(urlparse(url).query, SITES.github.success_indicator)
    /\ verdict = "still-on-login"

====
